---- MODULE Spec2Model ----
(***************************************************************************)
(* A model of fleet's composition engine: Fleet.compose and its two        *)
(* protocols (fleet/agents/fleet.py) driving Agent.send_message            *)
(* (fleet/agents/base.py).                                                 *)
(*                                                                         *)
(* Python dicts are objects: a message handed to send_message is appended  *)
(* to the transcript by reference, so messages live in a heap and a        *)
(* transcript is a sequence of heap addresses.  Text is a sequence of      *)
(* atoms (the caller's text, a JSON instruction, a labelled excerpt), and  *)
(* string concatenation is sequence concatenation.                         *)
(*                                                                         *)
(* One behaviour is one call by the user: compose in some mode, or         *)
(* synthesize_responses itself, on a fleet and sessions just constructed.  *)
(* Session A is a plain session on an OpenAI client, B a json_mode session *)
(* on an Anthropic client whose system prompt does not mention json (so    *)
(* _prepare_message injects its instruction), C a session whose client is  *)
(* None.                                                                   *)
(*                                                                         *)
(* SpecSession is the other way the code is used: the caller drives one    *)
(* Agent itself, with add_message, clear_messages and send_message, on a   *)
(* session of any provider, json_mode and tool registry.  Both             *)
(* specifications share the steps of send_message.                         *)
(***************************************************************************)
EXTENDS Integers, Sequences, FiniteSets, TLC

\* Bound: the number of participants (leaves and nested fleets) in the tree
\* of the fleet under composition.
MaxNodes == 3

\* Python's None where a ResponseObject is expected (final_response = None).
NoResponse == 0

\* The sessions the caller constructed, and the transient one that
\* synthesize_responses constructs.
Sessions == {"A", "B", "C"}

SynthesisAgent == "Synthesis Agent"

AllSessions == Sessions \cup {SynthesisAgent}

\* The values compose is called with.
Modes == {"synchronously", "asynchronously", "parallel"}

Models == {"", "gpt", "unlisted"}

VARIABLES
    agents_or_composers, \* Fleet.agents_or_composers of the root fleet (a tree)
    synthesize,          \* Fleet.synthesize of the root fleet
    client,              \* Agent.client, per session
    json_mode,           \* Agent.json_mode, per session
    prompt_json,         \* "json" in Agent.system_prompt.lower(), per session
    functions,           \* Agent.functions, per session: None or the names
    function_schemas,    \* Agent.function_schemas is set (truthy), per session
    heap,                \* the message dicts, by address
    messages,            \* Agent.messages, per session: addresses into heap
    content,             \* Agent.content, per session: the last ResponseObject
    nresp,               \* ResponseObjects constructed so far
    creates,             \* the completion calls made on the providers
    before,              \* the session as it was when send_message was called
    nops,                \* operations the caller invoked on a session itself
    entry,               \* the method the caller invoked
    phase,               \* where the caller's call is
    mode,                \* compose's mode argument
    model,               \* the model argument
    stack,               \* the active compose_synchronously frames
    taskIdx,             \* compose_asynchronously: the task the loop runs next
    responses,           \* compose_asynchronously: what gather collects
    exc,                 \* compose_asynchronously: the first task exception
    turn,                \* the send_message in progress, if any
    nsynth,              \* calls of synthesize_responses so far
    result,              \* what the call returned
    error,               \* what the call raised
    events               \* the lines of _print_agent_action, plus raises

vars == <<agents_or_composers, synthesize, client, json_mode, prompt_json,
          functions, function_schemas, heap, messages, content, nresp,
          creates, before, nops, entry, phase, mode, model, stack,
          taskIdx, responses, exc, turn, nsynth, result, error, events>>

config == <<agents_or_composers, synthesize, json_mode, prompt_json>>

tooling == <<functions, function_schemas>>

direct == <<before, nops>>

call == <<entry, mode, model>>

----------------------------------------------------------------------------
(* Participants: an Agent (a leaf, named by its session) or a Fleet.       *)

AgentOf(s) == [tag |-> "Agent", name |-> s, agents |-> <<>>]

FleetOf(as) == [tag |-> "Fleet", name |-> "Fleet", agents |-> as]

RECURSIVE ForestsOfSize(_)
\* The participant lists with exactly n participants in all, nested included.
ForestsOfSize(n) ==
    IF n = 0 THEN {<<>>}
    ELSE UNION { { <<p>> \o rest :
                     p \in (IF k = 1 THEN {AgentOf(s) : s \in Sessions} ELSE {})
                           \cup {FleetOf(as) : as \in ForestsOfSize(k - 1)},
                     rest \in ForestsOfSize(n - k) } : k \in 1..n }

Forests == UNION {ForestsOfSize(n) : n \in 0..MaxNodes}

----------------------------------------------------------------------------
(* Text.                                                                   *)

Atom(k, name, r) == [k |-> k, name |-> name, r |-> r]

InitialText == <<Atom("text", "initial_message", 0)>>

\* f"\n\nPlease respond in valid JSON format ... {json.dumps(self.json_schema)}"
JsonInstruction(s) == <<Atom("json_instruction", s, 0)>>

\* f"\n\n{item.name}: {response_content}"
Excerpt(name, r) == <<Atom("excerpt", name, r)>>

SystemPrompt(s) == <<Atom("system_prompt", s, 0)>>

Message(role, text) == [role |-> role, content |-> text]

\* The address of the system message set_system_prompt appended.
SystemMessage(s) == CASE s = "A" -> 1 [] s = "B" -> 2 [] s = "C" -> 3

\* The address of the dict the caller passes as initial_message.
InitialMessage == Cardinality(Sessions) + 1

\* The dicts that exist once the sessions are constructed and the caller
\* has built its message.
InitialHeap ==
    <<Message("system", SystemPrompt("A")),
      Message("system", SystemPrompt("B")),
      Message("system", SystemPrompt("C")),
      Message("user", InitialText)>>
----------------------------------------------------------------------------
(* Agent (base.py).                                                        *)

Providers == {"openai", "anthropic", "groq"}

\* The models the adapter lists (client.models.list(), groq_models).
AvailableModels == {"gpt"}

\* Agent.add_message: the dict itself is appended, not a copy.
add_message(msgs, s, m) == [msgs EXCEPT ![s] = Append(@, m)]

\* Agent._prepare_message, its effect on the dict it is handed.
prepare_message(h, s, m) ==
    IF json_mode[s] /\ ~prompt_json[s]
    THEN [h EXCEPT ![m].content = @ \o JsonInstruction(s)]
    ELSE h

\* A send_message that never looks at the adapter's model list.
TurnError_Unchecked(s) ==
    IF model = "" THEN "ModelNotSpecified"
    ELSE IF client[s] \notin Providers THEN "UnsupportedClient"
    ELSE "None"

\* What send_message raises before the provider is called, in the order of
\* its checks: _validate_model, the dispatch on the client's type, the
\* handler's look at the adapter's model list.
TurnError(s) ==
    IF model = "" THEN "ModelNotSpecified"
    ELSE IF client[s] \notin Providers THEN "UnsupportedClient"
    ELSE IF model \notin AvailableModels THEN "UnavailableModel"
    ELSE "None"

\* What the provider call and the reading of its reply can raise.
ReplyErrors(s) ==
    {"ProviderError"}
    \cup (IF json_mode[s] /\ client[s] = "anthropic"
          THEN {"MalformedResponse"} ELSE {})
    \cup (IF json_mode[s] /\ client[s] = "groq"
          THEN {"JSONDecodeError"} ELSE {})

\* The text of the provider's reply; ok says whether it parses as JSON.
Reply(s, r, ok) == <<Atom(IF ok THEN "reply" ELSE "unparseable_reply", s, r)>>

\* The replies a handler returns on rather than raises on.  Only
\* _handle_anthropic_chat and _handle_groq_chat call json.loads, and only in
\* json_mode; _handle_openai_chat hands the text back as it came.
Parses(s) ==
    IF json_mode[s] /\ client[s] = "openai" THEN BOOLEAN ELSE {TRUE}

\* _prepare_openai_kwargs, lines 106-109: the call offers the tools.  The
\* follow-up call of _handle_function_calls passes none.
OffersTools(s, round) ==
    client[s] = "openai" /\ function_schemas[s] /\ round = 1

\* One chat.completions.create / messages.create: the transcript handed to
\* the provider, whether tools were offered with it, and what came back:
\* "text", "unparseable" (text that is not JSON, asked of a json_mode
\* session), "tool_calls", or "failure" (the call raised).
Create(s, round, reply) ==
    [sess |-> s, messages |-> messages[s], tools |-> OffersTools(s, round),
     reply |-> reply]

\* Python's None as a message's content.
None == <<Atom("None", "None", 0)>>

\* A tool call of the provider's reply (tool_call.id, tool_call.function.name).
ToolCall(id, name) == [id |-> id, name |-> name]

\* {"role": "assistant", "content": None, "tool_calls": tool_calls}
ToolCallDirective(calls) ==
    [role |-> "assistant", content |-> None, tool_calls |-> calls]

\* {"role": "tool", "content": content, "tool_call_id": tool_call.id}
ToolMessage(text, id) == [role |-> "tool", content |-> text, tool_call_id |-> id]

\* Agent.functions: None (the default) or a dict of callables, by name.
NoFunctions == <<>>

Registry(names) == <<names>>

\* Agent._process_single_function_call, the content of the message it adds:
\* json.dumps of the callable's result, or of {"error": "Function '<name>'
\* not found"}.
ToolContent(s, c) ==
    IF c.name \in functions[s][1]
    THEN <<Atom("result", c.name, c.id)>>
    ELSE <<Atom("error", c.name, c.id)>>

\* A loop that answers the tool calls last to first.
ToolMessages_Reversed(s, calls) ==
    [i \in 1..Len(calls) |->
       ToolMessage(ToolContent(s, calls[Len(calls) + 1 - i]),
                   calls[Len(calls) + 1 - i].id)]

\* _handle_function_calls, lines 117-119: the messages its loop adds, one
\* per tool call, in the order of tool_calls.
ToolMessages(s, calls) ==
    [i \in 1..Len(calls) |-> ToolMessage(ToolContent(s, calls[i]), calls[i].id)]

\* function_name in self.functions, line 134, raises when functions is None.
LookupRaises(s) == functions[s] = NoFunctions

----------------------------------------------------------------------------
(* Fleet (fleet.py).                                                       *)

Event(action, path, name, text, r) ==
    [action |-> action, path |-> path, name |-> name, message |-> text, r |-> r]

\* The position, in the root fleet's tree, of the participant the innermost
\* active frame is at.
PathOf(stk) ==
    (IF phase = "async" THEN <<taskIdx>> ELSE <<>>)
    \o [k \in 1..Len(stk) |-> stk[k].i]

Frame(as, m) == [agents |-> as, i |-> 1, cur |-> m, final |-> NoResponse]

Returned(kind, value) == [kind |-> kind, value |-> value]

NothingReturned == Returned("none", <<>>)

\* A loop that catches a participant's exception and goes on to the next.
Raise_Swallowed(err, stk) ==
    /\ events' = Append(events, Event("Raised", PathOf(stk), err, <<>>, NoResponse))
    /\ result' = result
    /\ IF stk # <<>>
       THEN /\ stack' = [stk EXCEPT ![Len(stk)].i = @ + 1]
            /\ UNCHANGED <<exc, responses, taskIdx, phase, error>>
       ELSE IF phase = "async"
       THEN /\ stack' = <<>>
            /\ exc' = IF exc = "None" THEN err ELSE exc
            /\ responses' = Append(responses, NoResponse)
            /\ taskIdx' = taskIdx + 1
            /\ UNCHANGED <<phase, error>>
       ELSE /\ stack' = <<>>
            /\ error' = err
            /\ phase' = "done"
            /\ UNCHANGED <<exc, responses, taskIdx>>

\* An exception leaves whatever is running: fleet.py catches nothing, so it
\* unwinds every compose_synchronously frame.  Under compose_asynchronously
\* it ends the task it was raised in; gather keeps the first one.
Raise(err, stk) ==
    /\ stack' = <<>>
    /\ events' = Append(events, Event("Raised", PathOf(stk), err, <<>>, NoResponse))
    /\ result' = result
    /\ IF phase = "async"
       THEN /\ exc' = IF exc = "None" THEN err ELSE exc
            /\ responses' = Append(responses, NoResponse)
            /\ taskIdx' = taskIdx + 1
            /\ UNCHANGED <<phase, error>>
       ELSE /\ error' = err
            /\ phase' = "done"
            /\ UNCHANGED <<exc, responses, taskIdx>>

\* The loop body of compose_synchronously after the participant returned
\* (lines 38-41), in the frame on top of stk.
Continue(resp, h, stk) ==
    LET f    == stk[Len(stk)]
        item == f.agents[f.i]
        text == h[f.cur].content \o Excerpt(item.name, resp)
    IN  IF resp = NoResponse
        THEN heap' = h /\ Raise("TypeError", stk)
        ELSE /\ heap' = Append(h, Message("user", text))
             /\ stack' = [stk EXCEPT ![Len(stk)] =
                            [f EXCEPT !.cur = Len(h) + 1, !.final = resp, !.i = f.i + 1]]
             /\ events' = Append(events,
                    Event("Responded", PathOf(stk), item.name, <<>>, resp))
             /\ UNCHANGED <<phase, error, result, exc, responses, taskIdx>>

\* A participant's turn-completion returned resp to its caller: the frame on
\* top of stk, or agent_task, or the caller of compose_synchronously or of
\* send_message itself, or synthesize_responses (lines 105-106) and through
\* it the caller.
Deliver(resp, h, stk) ==
    IF phase = "synth"
    THEN /\ heap' = h
         /\ events' = Append(events,
                Event("Synthesized", <<>>, SynthesisAgent, <<>>, resp))
         /\ result' = Returned("response", <<resp>>)
         /\ phase' = "done"
         /\ UNCHANGED <<stack, error, exc, responses, taskIdx>>
    ELSE IF stk # <<>>
    THEN Continue(resp, h, stk)
    ELSE IF phase = "async"
    THEN /\ heap' = h
         /\ events' = Append(events,
                Event("Responded", <<taskIdx>>, agents_or_composers[taskIdx].name,
                      <<>>, resp))
         /\ responses' = Append(responses, resp)
         /\ taskIdx' = taskIdx + 1
         /\ stack' = stk
         /\ UNCHANGED <<phase, error, result, exc>>
    ELSE /\ heap' = h
         /\ result' = Returned("response", <<resp>>)
         /\ phase' = "done"
         /\ stack' = stk
         /\ UNCHANGED <<error, exc, responses, taskIdx, events>>

\* A send_message in progress: whose it is, where its participant sits in
\* the fleet, and which completion call of the handler is next (1, or 2 for
\* the follow-up call of _handle_function_calls).
Turn(s, path) == [sess |-> s, path |-> path, round |-> 1]

\* send_message up to the provider call: the message is prepared and appended.
StartTurn(s, m, path, stk) ==
    /\ heap' = prepare_message(heap, s, m)
    /\ messages' = add_message(messages, s, m)
    /\ turn' = <<Turn(s, path)>>
    /\ stack' = stk
    /\ events' = Append(events,
           Event("Processing", path, s, heap[m].content, NoResponse))
    /\ UNCHANGED <<config, tooling, direct, creates,
                   client, content, nresp, call, phase, taskIdx,
                   responses, exc, nsynth, result, error>>

\* A dispatch that runs the default protocol for a mode it does not know.
ModeDispatch_Default(md) ==
    IF md = "asynchronously" THEN "async" ELSE "sync"

\* Fleet.compose, lines 129-135: the protocol a mode value selects.
ModeDispatch(md) ==
    IF md = "synchronously" THEN "sync"
    ELSE IF md = "asynchronously" THEN "async"
    ELSE "raise"

\* Fleet.compose.
compose(md, mdl) ==
    /\ phase = "idle"
    /\ entry' = "compose"
    /\ mode' = md
    /\ model' = mdl
    /\ IF ModeDispatch(md) = "sync"
       THEN /\ phase' = "sync"
            /\ stack' = <<Frame(agents_or_composers, InitialMessage)>>
            /\ error' = error
       ELSE IF ModeDispatch(md) = "async"
       THEN /\ phase' = "async"
            /\ UNCHANGED <<stack, error>>
       ELSE /\ phase' = "done"
            /\ error' = "InvalidMode"
            /\ stack' = stack
    /\ UNCHANGED <<config, tooling, direct, creates,
                   client, heap, messages, content, nresp, taskIdx,
                   responses, exc, turn, nsynth, result, events>>

InFrame == phase \in {"sync", "async"} /\ stack # <<>> /\ turn = <<>>

\* compose_synchronously, line 35: the participant is a Fleet.
SyncInvokeFleet ==
    /\ InFrame
    /\ LET f == stack[Len(stack)] IN
       /\ f.i <= Len(f.agents)
       /\ f.agents[f.i].tag = "Fleet"
       /\ stack' = Append(stack, Frame(f.agents[f.i].agents, f.cur))
       /\ events' = Append(events,
              Event("Processing", PathOf(stack), f.agents[f.i].name,
                    heap[f.cur].content, NoResponse))
    /\ UNCHANGED <<config, tooling, direct, creates,
                   client, heap, messages, content, nresp, call, phase,
                   taskIdx, responses, exc, turn, nsynth, result, error>>

\* compose_synchronously, line 37: the participant is an Agent.
SyncInvokeAgent ==
    /\ InFrame
    /\ LET f == stack[Len(stack)] IN
       /\ f.i <= Len(f.agents)
       /\ f.agents[f.i].tag = "Agent"
       /\ StartTurn(f.agents[f.i].name, f.cur, PathOf(stack), stack)

\* compose_synchronously, line 43: the loop is over.
SyncReturn ==
    /\ InFrame
    /\ LET f == stack[Len(stack)] IN
       /\ f.i > Len(f.agents)
       /\ Deliver(f.final, heap, SubSeq(stack, 1, Len(stack) - 1))
    /\ UNCHANGED <<config, tooling, direct, creates,
                   client, messages, content, nresp, call, turn, nsynth>>

\* compose_asynchronously, lines 62-63.  agent_task holds no await: it calls
\* the blocking send_message and compose_synchronously, so a task, once the
\* event loop starts it, runs to its return or its raise before any other
\* task moves.  gather creates the tasks in the order of the list and the
\* loop starts them in that order; a task that raises does not stop the
\* ones queued behind it, and gather hands the caller the first exception
\* once they have all run.  Hence one loop over the participants.
InGather == phase = "async" /\ stack = <<>> /\ turn = <<>>

\* agent_task, line 52: the participant is a Fleet.
TaskInvokeFleet ==
    /\ InGather
    /\ taskIdx <= Len(agents_or_composers)
    /\ agents_or_composers[taskIdx].tag = "Fleet"
    /\ stack' = <<Frame(agents_or_composers[taskIdx].agents, InitialMessage)>>
    /\ events' = Append(events,
           Event("Processing", <<taskIdx>>, agents_or_composers[taskIdx].name,
                 heap[InitialMessage].content, NoResponse))
    /\ UNCHANGED <<config, tooling, direct, creates,
                   client, heap, messages, content, nresp, call, phase,
                   taskIdx, responses, exc, turn, nsynth, result, error>>

\* agent_task, line 54: the participant is an Agent.
TaskInvokeAgent ==
    /\ InGather
    /\ taskIdx <= Len(agents_or_composers)
    /\ agents_or_composers[taskIdx].tag = "Agent"
    /\ StartTurn(agents_or_composers[taskIdx].name, InitialMessage,
                 <<taskIdx>>, stack)

\* A fan-in that synthesizes whatever the flag says.
ShouldSynthesize_Always == TRUE

\* compose_asynchronously, line 65: if self.synthesize.
ShouldSynthesize == synthesize

\* A gather that hands back what it collected, exceptions dropped.
GatherRaises_Never == FALSE

\* await asyncio.gather(*tasks), line 63: with return_exceptions left at
\* its default the first exception of a task is raised in the caller.
GatherRaises == exc # "None"

\* compose_asynchronously, lines 63-70: every task has run.
GatherDone ==
    /\ InGather
    /\ taskIdx > Len(agents_or_composers)
    /\ IF GatherRaises
       THEN /\ error' = exc
            /\ phase' = "done"
            /\ result' = result
       ELSE IF ShouldSynthesize
       THEN /\ phase' = "synth"
            /\ UNCHANGED <<error, result>>
       ELSE /\ result' = Returned("list", responses)
            /\ phase' = "done"
            /\ error' = error
    /\ UNCHANGED <<config, tooling, direct, creates,
                   client, heap, messages, content, nresp, call, stack,
                   taskIdx, responses, exc, turn, nsynth, events>>

\* send_message raises.
TurnRaises ==
    /\ turn # <<>>
    /\ LET s == turn[1].sess IN
       \E e \in (IF TurnError(s) # "None" THEN {TurnError(s)} ELSE ReplyErrors(s)) :
          /\ IF e = "JSONDecodeError"
             THEN \* _handle_groq_chat appends the raw reply, then parses it
                  /\ heap' = Append(heap,
                        Message("assistant", Reply(s, nresp + 1, FALSE)))
                  /\ messages' = add_message(messages, s, Len(heap) + 1)
             ELSE UNCHANGED <<heap, messages>>
          /\ creates' = IF e \in ReplyErrors(s)
                        THEN Append(creates,
                               Create(s, turn[1].round,
                                      IF e = "ProviderError" THEN "failure"
                                                             ELSE "unparseable"))
                        ELSE creates
          /\ Raise(e, stack)
    /\ turn' = <<>>
    /\ UNCHANGED <<config, tooling, direct,
                   client, content, nresp, call, nsynth>>

\* A handler that returns its ResponseObject without keeping it.
StoreResponse_Forgotten(c, s, r) == c

\* self.content = ResponseObject(...), lines 168, 199, 223.
StoreResponse(c, s, r) == [c EXCEPT ![s] = r]

\* send_message returns: the handler appends the reply, stores the
\* ResponseObject in self.content and returns it.
TurnReplies ==
    /\ turn # <<>>
    /\ LET s == turn[1].sess
           r == nresp + 1
       IN
       /\ TurnError(s) = "None"
       /\ \E ok \in Parses(s) :
            LET h1 == Append(heap, Message("assistant", Reply(s, r, ok))) IN
            /\ creates' = Append(creates,
                   Create(s, turn[1].round, IF ok THEN "text" ELSE "unparseable"))
            /\ messages' = add_message(messages, s, Len(h1))
            /\ Deliver(r, h1, stack)
       /\ content' = StoreResponse(content, s, r)
       /\ nresp' = r
    /\ turn' = <<>>
    /\ UNCHANGED <<config, tooling, direct, client, call, nsynth>>
\* Fleet._format_agent_responses: one entry per response, with the name of
\* the participant at the same index.
format_agent_responses(as, rs) ==
    [i \in 1..Len(rs) |-> Atom("formatted", as[i].name, rs[i])]

\* f"... The team's overall goal is: {self.description} ... {formatted} ..."
SynthesisPrompt(as, rs) ==
    <<Atom("text", "synthesis_prompt", 0)>> \o format_agent_responses(as, rs)

\* agents_or_composers[0].agents_or_composers[0].client (lines 89 and 100).
NestedClient(as) ==
    IF as = <<>> THEN [err |-> "IndexError", client |-> "None"]
    ELSE IF as[1].agents = <<>> THEN [err |-> "IndexError", client |-> "None"]
    ELSE IF as[1].agents[1].tag = "Fleet"
    THEN [err |-> "AttributeError", client |-> "None"]
    ELSE [err |-> "None", client |-> client[as[1].agents[1].name]]

\* The client synthesize_responses builds its agent on (lines 88-103).
SynthesisClient(as) ==
    IF \A i \in 1..Len(as) : as[i].tag = "Fleet" THEN NestedClient(as)
    ELSE IF as[1].tag = "Agent"
    THEN [err |-> "None", client |-> client[as[1].name]]
    ELSE NestedClient(as)

\* The caller invokes synthesize_responses itself, with one ResponseObject
\* of its own per participant.
synthesize_direct(mdl) ==
    /\ phase = "idle"
    /\ entry' = "synthesize_responses"
    /\ model' = mdl
    /\ phase' = "synth"
    /\ responses' = [i \in 1..Len(agents_or_composers) |-> i]
    /\ nresp' = Len(agents_or_composers)
    /\ UNCHANGED <<config, tooling, direct, creates,
                   client, heap, messages, content, mode, stack,
                   taskIdx, exc, turn, nsynth, result, error, events>>

\* synthesize_responses up to the provider call of its one turn.
synthesize_responses ==
    /\ phase = "synth"
    /\ turn = <<>>
    /\ nsynth' = nsynth + 1
    /\ LET as     == agents_or_composers
           found  == SynthesisClient(as)
           prompt == SynthesisPrompt(as, responses)
           h1     == heap \o <<Message("system", prompt), Message("user", prompt)>>
       IN
       IF \E i \in 1..Len(responses) : responses[i] = NoResponse
       THEN \* response.content of None, while the prompt is formatted
            /\ Raise("AttributeError", <<>>)
            /\ UNCHANGED <<heap, messages, client, turn>>
       ELSE IF found.err # "None"
       THEN /\ Raise(found.err, <<>>)
            /\ UNCHANGED <<heap, messages, client, turn>>
       ELSE /\ client' = [client EXCEPT ![SynthesisAgent] = found.client]
            /\ heap' = h1
            /\ messages' = [messages EXCEPT
                   ![SynthesisAgent] = <<Len(heap) + 1, Len(heap) + 2>>]
            /\ turn' = <<Turn(SynthesisAgent, <<>>)>>
            /\ UNCHANGED <<stack, taskIdx, responses, exc, phase, result,
                           error, events>>
    /\ UNCHANGED <<config, tooling, direct, creates, content, nresp, call>>

----------------------------------------------------------------------------

\* What a session was like when the caller invoked send_message on it.
\* entry and error are the caller's previous call and how it ended.
Snapshot(s) ==
    [messages |-> messages[s],
     texts    |-> [k \in 1..Len(messages[s]) |-> heap[messages[s][k]].content],
     creates  |-> Len(creates),
     content  |-> content[s],
     entry    |-> entry,
     error    |-> error]

NoSnapshot == [messages |-> <<>>, texts |-> <<>>, creates |-> 0,
               content |-> NoResponse, entry |-> "none", error |-> "None"]

Init ==
    /\ agents_or_composers \in Forests
    /\ synthesize \in BOOLEAN
    /\ client = [s \in AllSessions |->
                   CASE s = "A" -> "openai"
                     [] s = "B" -> "anthropic"
                     [] OTHER   -> "None"]
    /\ json_mode = [s \in AllSessions |-> s = "B"]
    /\ prompt_json = [s \in AllSessions |-> FALSE]
    /\ heap = InitialHeap
    /\ messages = [s \in AllSessions |->
                   IF s \in Sessions THEN <<SystemMessage(s)>> ELSE <<>>]
    /\ content = [s \in AllSessions |-> NoResponse]
    /\ nresp = 0
    /\ functions = [s \in AllSessions |-> NoFunctions]
    /\ function_schemas = [s \in AllSessions |-> FALSE]
    /\ creates = <<>>
    /\ before = NoSnapshot
    /\ nops = 0
    /\ entry = "none"
    /\ phase = "idle"
    /\ mode = "none"
    /\ model = "none"
    /\ stack = <<>>
    /\ taskIdx = 1
    /\ responses = <<>>
    /\ exc = "None"
    /\ turn = <<>>
    /\ nsynth = 0
    /\ result = NothingReturned
    /\ error = "None"
    /\ events = <<>>

Next ==
    \/ \E md \in Modes, mdl \in Models : compose(md, mdl)
    \/ \E mdl \in Models : synthesize_direct(mdl)
    \/ SyncInvokeFleet
    \/ SyncInvokeAgent
    \/ SyncReturn
    \/ TaskInvokeFleet
    \/ TaskInvokeAgent
    \/ GatherDone
    \/ TurnRaises
    \/ TurnReplies
    \/ synthesize_responses

Spec == Init /\ [][Next]_vars

----------------------------------------------------------------------------
(* A session driven by the caller itself: add_message, clear_messages and  *)
(* send_message on one Agent, of any provider, mode and tool registry.     *)

\* Bound: the operations the caller invokes on the session.
MaxOps == 2

\* The session the caller drives.
Subject == "A"

\* The tool calls a reply may hold, in the order the provider lists them.
ToolRequests ==
    {<<ToolCall(1, "add")>>, <<ToolCall(1, "subtract")>>,
     <<ToolCall(1, "add"), ToolCall(2, "subtract")>>}

\* The registries the session may be constructed with.
Registries ==
    {NoFunctions, Registry({}), Registry({"add"}), Registry({"add", "subtract"})}

AtRest == phase \in {"idle", "done"} /\ turn = <<>>

\* A send_message that validates the model before it touches the transcript.
AppendsMessage_IfValid(s, mdl) ==
    /\ mdl # ""
    /\ client[s] \in Providers => mdl \in AvailableModels

\* send_message, lines 64-65: _prepare_message, which ends in add_message,
\* runs before _validate_model, so the message is appended whatever the
\* model.
AppendsMessage(s, mdl) == TRUE

\* Agent.send_message, called by the caller with a dict of its own: one it
\* has just built (fresh) or the one it built before and passes again.
\* Lines 61-64; the handler's part is TurnRaises, TurnReplies, TurnCallsTools.
send_message(s, mdl, fresh, fs) ==
    /\ AtRest
    /\ nops < MaxOps
    /\ nops' = nops + 1
    /\ entry' = "send_message"
    /\ model' = mdl
    /\ phase' = "direct"
    /\ error' = "None"
    /\ result' = NothingReturned
    /\ before' = Snapshot(s)
    /\ function_schemas' = IF fs THEN [function_schemas EXCEPT ![s] = TRUE]
                                 ELSE function_schemas
    /\ LET h0 == IF fresh THEN Append(heap, Message("user", InitialText))
                          ELSE heap
           m  == IF fresh THEN Len(heap) + 1 ELSE InitialMessage
       IN  /\ heap' = prepare_message(h0, s, m)
           /\ messages' = IF AppendsMessage(s, mdl)
                          THEN add_message(messages, s, m)
                          ELSE messages
    /\ turn' = <<Turn(s, <<>>)>>
    /\ UNCHANGED <<config, functions, client, content, nresp, creates, mode,
                   stack, taskIdx, responses, exc, nsynth, events>>

\* Agent.add_message, called by the caller.
AddMessage(s, fresh) ==
    /\ AtRest
    /\ nops < MaxOps
    /\ nops' = nops + 1
    /\ entry' = "add_message"
    /\ LET h0 == IF fresh THEN Append(heap, Message("user", InitialText))
                          ELSE heap
           m  == IF fresh THEN Len(heap) + 1 ELSE InitialMessage
       IN  /\ heap' = h0
           /\ messages' = add_message(messages, s, m)
    /\ UNCHANGED <<config, tooling, client, content, nresp, creates, before,
                   phase, mode, model, stack, taskIdx, responses, exc, turn,
                   nsynth, result, error, events>>

\* Agent.clear_messages.
clear_messages(s) ==
    /\ AtRest
    /\ nops < MaxOps
    /\ nops' = nops + 1
    /\ entry' = "clear_messages"
    /\ messages' = [messages EXCEPT ![s] = <<>>]
    /\ UNCHANGED <<config, tooling, client, heap, content, nresp, creates,
                   before, phase, mode, model, stack, taskIdx, responses, exc,
                   turn, nsynth, result, error, events>>

\* _handle_openai_chat, lines 157-164, and _handle_function_calls up to its
\* follow-up call: the reply holds tool calls, the directive is added, then
\* one tool message per call.
TurnCallsTools ==
    /\ turn # <<>>
    /\ turn[1].round = 1
    /\ LET s == turn[1].sess IN
       /\ TurnError(s) = "None"
       /\ OffersTools(s, 1)
       /\ creates' = Append(creates, Create(s, 1, "tool_calls"))
       /\ \E calls \in ToolRequests :
            IF LookupRaises(s)
            THEN /\ heap' = Append(heap, ToolCallDirective(calls))
                 /\ messages' = add_message(messages, s, Len(heap) + 1)
                 /\ turn' = <<>>
                 /\ Raise("TypeError", stack)
            ELSE /\ heap' = Append(heap, ToolCallDirective(calls))
                            \o ToolMessages(s, calls)
                 /\ messages' = [messages EXCEPT ![s] =
                        @ \o [i \in 1..(Len(calls) + 1) |-> Len(heap) + i]]
                 /\ turn' = <<[turn[1] EXCEPT !.round = 2]>>
                 /\ UNCHANGED <<stack, events, result, error, phase, exc,
                                responses, taskIdx>>
    /\ UNCHANGED <<config, tooling, direct, client, content, nresp, call,
                   nsynth>>

InitSession ==
    /\ agents_or_composers = <<>>
    /\ synthesize = FALSE
    /\ \E c \in Providers \cup {"None"} :
         client = [s \in AllSessions |->
                     CASE s = Subject -> c
                       [] s = "B"     -> "anthropic"
                       [] OTHER       -> "None"]
    /\ \E j \in BOOLEAN :
         json_mode = [s \in AllSessions |-> IF s = Subject THEN j ELSE s = "B"]
    /\ \E j \in BOOLEAN :
         prompt_json = [s \in AllSessions |-> s = Subject /\ j]
    /\ \E f \in Registries :
         functions = [s \in AllSessions |->
                        IF s = Subject THEN f ELSE NoFunctions]
    /\ \E f \in BOOLEAN :
         function_schemas = [s \in AllSessions |-> s = Subject /\ f]
    /\ heap = InitialHeap
    /\ messages = [s \in AllSessions |->
                   IF s \in Sessions THEN <<SystemMessage(s)>> ELSE <<>>]
    /\ content = [s \in AllSessions |-> NoResponse]
    /\ nresp = 0
    /\ creates = <<>>
    /\ before = NoSnapshot
    /\ nops = 0
    /\ entry = "none"
    /\ phase = "idle"
    /\ mode = "none"
    /\ model = "none"
    /\ stack = <<>>
    /\ taskIdx = 1
    /\ responses = <<>>
    /\ exc = "None"
    /\ turn = <<>>
    /\ nsynth = 0
    /\ result = NothingReturned
    /\ error = "None"
    /\ events = <<>>

NextSession ==
    \/ \E mdl \in Models, fresh \in BOOLEAN, fs \in BOOLEAN :
         send_message(Subject, mdl, fresh, fs)
    \/ \E fresh \in BOOLEAN : AddMessage(Subject, fresh)
    \/ clear_messages(Subject)
    \/ TurnCallsTools
    \/ TurnRaises
    \/ TurnReplies

SpecSession == InitSession /\ [][NextSession]_vars
----------------------------------------------------------------------------
(* The text of the exceptions.                                             *)

\* The value of an argument, formatted into a message.
Value(v) == Atom("value", v, 0)

Text(str) == Atom("text", str, 0)

\* The message of the exception of each kind that fleet's own code raises,
\* for a call with mode md and model mdl: fleet.py 135, base.py 75, 92,
\* 149 (182, 213 likewise), 195.  The others come from the libraries.
ErrorMessage(e, md, mdl) ==
    CASE e = "InvalidMode" ->
           <<Text("Invalid mode. Choose 'synchronously' or 'asynchrounsly'.")>>
      [] e = "ModelNotSpecified" -> <<Text("Model not specified")>>
      [] e = "UnavailableModel" ->
           <<Text("Model "), Value(mdl), Text(" not available for ")>>
      [] e = "UnsupportedClient" -> <<Text("Unsupported client type")>>
      [] e = "MalformedResponse" ->
           <<Text("Response is not in valid JSON format")>>
      [] OTHER -> <<Text("library")>>

----------------------------------------------------------------------------
(* What the claims speak of.                                               *)

N == Len(agents_or_composers)

\* The errors a leaf's turn (send_message) raises.
TurnErrors ==
    {"ModelNotSpecified", "UnsupportedClient", "UnavailableModel",
     "ProviderError", "MalformedResponse", "JSONDecodeError"}

Raises == {i \in 1..Len(events) : events[i].action = "Raised"}

EveryTurnSucceeded ==
    \A i \in Raises : events[i].name \notin TurnErrors

\* The events of the root fleet's own participants, in the order they occurred.
RootEvents(action) ==
    SelectSeq(events, LAMBDA e : e.action = action /\ Len(e.path) = 1)

\* The index in events of the root participant k's event, 0 if there is none.
RootIndex(action, k) ==
    LET at == {i \in 1..Len(events) :
                 events[i].action = action /\ events[i].path = <<k>>}
    IN  IF at = {} THEN 0 ELSE CHOOSE i \in at : \A j \in at : i <= j

\* The Response the root participant k returned.
Produced(k) == events[RootIndex("Responded", k)].r

RECURSIVE Leaves(_)
\* The sessions of a participant list's leaves, depth first.
Leaves(as) ==
    IF as = <<>> THEN <<>>
    ELSE (IF as[1].tag = "Agent" THEN <<as[1].name>> ELSE Leaves(as[1].agents))
         \o Leaves(Tail(as))

Bound(s) == client[s] \in Providers

\* (C1) a sequential composition in which every turn
\* succeeds starts every participant exactly once, in declared order, each
\* after its predecessor completed, and returns the last participant's
\* Response (for a leaf, that session's stored Response).
C1_SequentialRunsAllInOrder ==
    (entry = "compose" /\ mode = "synchronously" /\ phase = "done"
       /\ N >= 1 /\ EveryTurnSucceeded)
    => /\ error = "None"
       /\ Len(RootEvents("Processing")) = N
       /\ Len(RootEvents("Responded")) = N
       /\ \A k \in 1..N :
            /\ RootEvents("Processing")[k].path = <<k>>
            /\ RootEvents("Responded")[k].path = <<k>>
            /\ RootIndex("Processing", k) < RootIndex("Responded", k)
            /\ k < N => RootIndex("Responded", k) < RootIndex("Processing", k + 1)
       /\ result = Returned("response", <<Produced(N)>>)
       /\ Produced(N) # NoResponse
       /\ agents_or_composers[N].tag = "Agent"
            => result.value = <<content[agents_or_composers[N].name]>>

\* (C2) a concurrent composition without synthesis in
\* which every turn succeeds returns one Response per participant, the one
\* at index i produced by the i-th declared participant.
C2_ConcurrentResultIsIndexAligned ==
    (entry = "compose" /\ mode = "asynchronously" /\ ~synthesize
       /\ phase = "done" /\ EveryTurnSucceeded)
    => /\ error = "None"
       /\ result.kind = "list"
       /\ Len(result.value) = N
       /\ \A k \in 1..N :
            /\ result.value[k] # NoResponse
            /\ result.value[k] = Produced(k)

\* The text the claim C3 expects participant k to be handed.
C3_Expected(k) ==
    InitialText
    \o [j \in 1..(k - 1) |->
          Atom("excerpt", agents_or_composers[j].name, Produced(j))]

\* (C3) whatever the participants' output modes, the
\* k-th participant of a sequential composition is handed the caller's
\* initial text followed by the labelled excerpts of participants 1..k-1,
\* and nothing else.
C3_HandedInitialPlusExcerpts ==
    (entry = "compose" /\ mode = "synchronously")
    => \A i \in 1..Len(events) :
         (events[i].action = "Processing" /\ Len(events[i].path) = 1)
         => events[i].message = C3_Expected(events[i].path[1])

\* (C4) every participant of a concurrent composition
\* starts from the initial message as the caller passed it, whatever the
\* position and output mode of the others.
C4_EveryTaskStartsFromInitialMessage ==
    (entry = "compose" /\ mode = "asynchronously")
    => \A i \in 1..Len(events) :
         (events[i].action = "Processing" /\ Len(events[i].path) = 1)
         => events[i].message = InitialText

\* The session whose turn takes this step, if it is a step of a turn.
Actor ==
    IF turn # <<>> THEN turn[1].sess
    ELSE IF turn' # <<>> THEN turn'[1].sess
    ELSE "none"

PairwiseDistinct(ss) == \A i, j \in 1..Len(ss) : ss[i] = ss[j] => i = j

\* (C5) in a concurrent composition over pairwise
\* distinct sessions, a step of one participant's turn never changes the
\* content of an entry already in another participant's transcript.
C5_NoSharedMutableState ==
    [][ (phase = "async" /\ Actor \in Sessions
           /\ PairwiseDistinct(Leaves(agents_or_composers)))
        => \A s \in Sessions \ {Actor} :
             \A k \in 1..Len(messages[s]) :
                heap'[messages[s][k]].content = heap[messages[s][k]].content
      ]_vars

\* The transient session's transcript, once synthesize_responses built it.
SynthesisTurns ==
    Cardinality({k \in 1..Len(messages[SynthesisAgent]) :
                   heap[messages[SynthesisAgent][k]].role = "user"})

\* (C6) In compose_asynchronously, with synthesize set the synthesis step
\* runs once, after every participant's turn completed, on the Responses
\* in declared order, and its Response is what the call returns; with
\* synthesize unset it never runs and no synthesis turn is issued.
C6_SynthesisOnceAfterFanIn ==
    (entry = "compose" /\ mode = "asynchronously")
    => /\ nsynth <= 1
       /\ SynthesisTurns <= nsynth
       /\ ~synthesize
            => /\ nsynth = 0
               /\ phase # "synth"
               /\ messages[SynthesisAgent] = <<>>
               /\ content[SynthesisAgent] = NoResponse
               /\ (phase = "done" /\ error = "None")
                    => result = Returned("list", responses)
       /\ nsynth = 1
            => /\ synthesize
               /\ taskIdx = N + 1
               /\ exc = "None"
               /\ Len(responses) = N
               /\ \A k \in 1..N : /\ RootIndex("Responded", k) # 0
                                  /\ responses[k] = Produced(k)
               /\ messages[SynthesisAgent] # <<>>
                    => /\ SynthesisTurns = 1
                       /\ heap[messages[SynthesisAgent][2]].content
                            = SynthesisPrompt(agents_or_composers, responses)
       /\ (synthesize /\ phase = "done" /\ exc = "None"
             /\ taskIdx = N + 1)
            => nsynth = 1
       /\ (synthesize /\ phase = "done" /\ error = "None")
            => /\ nsynth = 1
               /\ content[SynthesisAgent] # NoResponse
               /\ result = Returned("response", <<content[SynthesisAgent]>>)

C6_Witness ==
    /\ entry = "compose" /\ mode = "asynchronously" /\ synthesize
    /\ phase = "done" /\ error = "None" /\ N = 2
    /\ nsynth = 1
    /\ result = Returned("response", <<content[SynthesisAgent]>>)

\* The client of the first leaf, depth first, that has one bound.
FirstBoundClient(as) ==
    LET ls == SelectSeq(Leaves(as), Bound) IN client[ls[1]]

HasBoundLeaf(as) == \E i \in 1..Len(Leaves(as)) : Bound(Leaves(as)[i])

\* synthesize_responses was called with a Response per participant.
Synthesized ==
    /\ nsynth = 1
    /\ Len(responses) = N
    /\ \A k \in 1..N : responses[k] # NoResponse

NoAdapterAvailable == "UnsupportedClient"

C9_InvalidModeInvokesNothing ==
    (entry = "compose" /\ mode \notin {"synchronously", "asynchronously"})
    => /\ phase = "done"
       /\ error = "InvalidMode"
       /\ result = NothingReturned
       /\ events = <<>>
       /\ heap = InitialHeap
       /\ messages = [s \in AllSessions |->
                        IF s \in Sessions THEN <<SystemMessage(s)>> ELSE <<>>]
       /\ \A s \in AllSessions : content[s] = NoResponse
       /\ nresp = 0
       /\ nsynth = 0
       /\ stack = <<>>
       /\ turn = <<>>

C9_Witness ==
    /\ entry = "compose" /\ mode = "parallel" /\ N >= 1
    /\ phase = "done" /\ error = "InvalidMode"

\* (C10) In compose_synchronously, when the turn of participant k fails the
\* call fails with that error, returns no Response, and invokes no
\* participant after k, those inside later nested fleets included.
C10_SequentialAbortsOnFirstFailure ==
    /\ (entry = "compose" /\ mode = "synchronously")
       => \A i \in Raises :
            /\ i = Len(events)
            /\ phase = "done"
            /\ error = events[i].name
            /\ result = NothingReturned
            /\ stack = <<>>
            /\ turn = <<>>
    /\ (entry = "compose" /\ mode = "asynchronously")
       \* a nested fleet runs compose_synchronously inside its task
       => \A i \in Raises : \A j \in 1..Len(events) :
            (i < j /\ Len(events[i].path) >= 2)
            => events[j].path[1] # events[i].path[1]

C10_Witness ==
    /\ entry = "compose" /\ mode = "synchronously" /\ phase = "done"
    /\ N = 3
    /\ Len(events) = 4
    /\ events[4].action = "Raised" /\ events[4].path = <<2>>
    /\ error = "ProviderError"

\* The raises inside the tasks of compose_asynchronously.
TaskRaises == {i \in Raises : events[i].path # <<>>}

\* (C11) In compose_asynchronously, once any participant's task has raised,
\* the call does not return: no list of Responses, partial or not, no
\* synthesis step, and when the call is over it has raised the first
\* task's error.
C11_ConcurrentFailsOnAnyFailure ==
    (entry = "compose" /\ mode = "asynchronously" /\ TaskRaises # {})
    => /\ result = NothingReturned
       /\ nsynth = 0
       /\ phase \in {"async", "done"}
       /\ messages[SynthesisAgent] = <<>>
       /\ phase = "done"
            => /\ error # "None"
               /\ error = events[CHOOSE i \in TaskRaises :
                                   \A j \in TaskRaises : i <= j].name

C11_Witness ==
    /\ entry = "compose" /\ mode = "asynchronously" /\ synthesize
    /\ phase = "done" /\ N = 3
    /\ RootIndex("Responded", 1) # 0
    /\ RootIndex("Responded", 3) # 0
    /\ \E i \in TaskRaises : events[i].path = <<2>> /\ events[i].name \in TurnErrors
    /\ error \in TurnErrors

----------------------------------------------------------------------------
(* What the claims about a session speak of.                               *)

Transcript == messages[Subject]

IsPrefix(a, b) == Len(a) <= Len(b) /\ SubSeq(b, 1, Len(a)) = a

\* This step is the caller's clear_messages.
ClearStep == nops' = nops + 1 /\ entry' = "clear_messages"

\* (C12) After any sequence of add_message, send_message and clear_messages
\* on a constructed session, a transcript that is not empty starts with the
\* system message, and every step but a clear_messages leaves the entries
\* it found in place and in order: the old transcript is a prefix of the new.
C12_SystemFirstAndAppendOnly ==
    [][ /\ messages'[Subject] # <<>>
           => heap'[messages'[Subject][1]].role = "system"
        /\ ~ClearStep => IsPrefix(messages[Subject], messages'[Subject])
      ]_vars

\* The half of C12 that the code keeps: but for clear_messages, a step only
\* appends to the transcript.
C12_AppendOnly ==
    [][ ~ClearStep => IsPrefix(messages[Subject], messages'[Subject]) ]_vars

\* The entries the send_message in progress, or the last one, has appended.
Appended == SubSeq(Transcript, Len(before.messages) + 1, Len(Transcript))

\* The turn's reply held tool calls.
ToolTurn ==
    \E k \in 1..Len(Appended) : "tool_calls" \in DOMAIN heap[Appended[k]]

Returns == entry = "send_message" /\ phase = "done" /\ error = "None"

\* (C13) A send_message that returns, its reply holding no tool calls, has
\* appended two entries to the transcript it found, a user message and then
\* the assistant's reply; it made one completion call, and made it on the
\* transcript as it stood between the two appends; the ResponseObject it
\* returns is a new one and is the session's content.  While the call is
\* pending the user message is appended and no completion call is made yet.
C13_PlainTurnAppendsTwoCallsOnce ==
    /\ (Returns /\ ~ToolTurn)
       => /\ IsPrefix(before.messages, Transcript)
          /\ Len(Appended) = 2
          /\ heap[Appended[1]].role = "user"
          /\ heap[Appended[2]].role = "assistant"
          /\ Len(creates) = before.creates + 1
          /\ creates[Len(creates)].sess = Subject
          /\ creates[Len(creates)].messages = before.messages \o <<Appended[1]>>
          /\ result = Returned("response", <<content[Subject]>>)
          /\ content[Subject] = nresp
          /\ content[Subject] \notin {NoResponse, before.content}
    /\ (entry = "send_message" /\ turn # <<>> /\ turn[1].round = 1)
       => /\ Len(creates) = before.creates
          /\ Transcript = before.messages \o <<Appended[1]>>
          /\ heap[Appended[1]].role = "user"

C13_Witness ==
    /\ Returns /\ ~ToolTurn
    /\ nops = 2
    /\ Len(creates) = 2
    /\ Len(Transcript) = 5
    /\ before.content # NoResponse

\* The spec's InvalidRequest: _validate_model's "Model not specified".
InvalidRequest == "ModelNotSpecified"

\* The failure C14 expects of a send_message with this model on the session.
C14_Expected ==
    IF model = "" THEN InvalidRequest
    ELSE IF client[Subject] \in Providers /\ model \notin AvailableModels
    THEN "UnavailableModel"
    ELSE "None"

\* (C14) A send_message with an empty model raises "Model not specified",
\* and one with a model the bound adapter does not list raises the
\* unavailable-model error: every such call, the first and every repetition,
\* ends in that error, returns nothing, makes no completion call, appends
\* only the outgoing user message and leaves the session's content alone.
C14_ModelValidationFailsBeforeProvider ==
    (entry = "send_message" /\ C14_Expected # "None")
    => /\ Len(creates) = before.creates
       /\ content[Subject] = before.content
       /\ result = NothingReturned
       /\ Transcript = before.messages \o <<Appended[1]>>
       /\ heap[Appended[1]].role = "user"
       /\ phase = "done" => error = C14_Expected

C14_Witness ==
    /\ entry = "send_message" /\ phase = "done" /\ nops = 2
    /\ model = "unlisted" /\ client[Subject] = "groq"
    /\ error = "UnavailableModel"
    /\ Len(events) = 2
    /\ events[1].name = "UnavailableModel"
    /\ events[2].name = "UnavailableModel"
    /\ Len(Transcript) = 3

\* The message names the value v.
Carries(msg, v) == \E i \in 1..Len(msg) : msg[i] = Value(v)

\* (C15) The message of every error of the core operations names the
\* offending value: the invalid-mode error the mode compose was called
\* with, the model-not-specified and unavailable-model errors the model.
C15_ErrorsCarryOffendingValue ==
    /\ error = "InvalidMode"
         => Carries(ErrorMessage(error, mode, model), mode)
    /\ error \in {InvalidRequest, "UnavailableModel"}
         => Carries(ErrorMessage(error, mode, model), model)

\* The part of C15 that the code keeps: the unavailable-model error names
\* the model.
C15_UnavailableModelCarriesModel ==
    error = "UnavailableModel"
    => Carries(ErrorMessage(error, mode, model), model)

\* The tool calls of the reply of the send_message in progress (or the last).
Requested == heap[Appended[2]].tool_calls

\* Every tool the reply names is a callable of the session's registry.
AllRegistered ==
    /\ functions[Subject] # NoFunctions
    /\ \A i \in 1..Len(Requested) : Requested[i].name \in functions[Subject][1]

\* (C16) When the reply to a send_message holds tool calls, all of them to
\* registered callables, the entries the call appends are, in this order:
\* the user message, the assistant's directive with the tool calls, one
\* tool message per call in the order of the calls, each with its call's id
\* and the callable's serialized result, and, once the call returns, one
\* assistant message with the follow-up reply.  The first completion call
\* was made on the transcript up to the user message, the follow-up on the
\* transcript up to the last tool message and with no tools offered, so it
\* cannot ask for tools again: two completion calls in all.
C16_ToolRoundTrip ==
    (entry = "send_message" /\ ToolTurn /\ AllRegistered)
    => LET n == Len(Requested) IN
       /\ IsPrefix(before.messages, Transcript)
       /\ heap[Appended[1]].role = "user"
       /\ heap[Appended[2]] = ToolCallDirective(Requested)
       /\ Len(Appended) >= n + 2
       /\ \A i \in 1..n :
            heap[Appended[2 + i]] =
               ToolMessage(<<Atom("result", Requested[i].name, Requested[i].id)>>,
                           Requested[i].id)
       /\ \A k \in 3..Len(Appended) : "tool_calls" \notin DOMAIN heap[Appended[k]]
       /\ creates[before.creates + 1] =
            [sess |-> Subject, tools |-> TRUE, reply |-> "tool_calls",
             messages |-> before.messages \o <<Appended[1]>>]
       /\ turn # <<>>
            => /\ turn[1].round = 2
               /\ Len(Appended) = n + 2
               /\ Len(creates) = before.creates + 1
       /\ phase = "done"
            => /\ Len(creates) = before.creates + 2
               /\ creates[Len(creates)].sess = Subject
               /\ creates[Len(creates)].tools = FALSE
               /\ creates[Len(creates)].reply # "tool_calls"
               /\ creates[Len(creates)].messages =
                    before.messages \o SubSeq(Appended, 1, n + 2)
       /\ Returns
            => /\ Len(Appended) = n + 3
               /\ heap[Appended[n + 3]].role = "assistant"
               /\ heap[Appended[n + 3]].content # None
               /\ result = Returned("response", <<content[Subject]>>)

C16_Witness ==
    /\ Returns /\ ToolTurn /\ AllRegistered
    /\ Len(Requested) = 2
    /\ Len(Appended) = 5
    /\ heap[Appended[3]].tool_call_id = 1
    /\ heap[Appended[4]].tool_call_id = 2
    /\ Len(creates) = before.creates + 2

\* The session's registry has no callable of this name: it has others, or
\* is empty, or the session was constructed without one.
Unregistered(name) ==
    \/ functions[Subject] = NoFunctions
    \/ name \notin functions[Subject][1]

\* What C17 says of a send_message whose reply asked for tools.
C17_Recorded ==
    LET n == Len(Requested) IN
    /\ error \in {"None", "ProviderError"}
    /\ Len(Appended) >= n + 2
    /\ \A i \in 1..n :
         Unregistered(Requested[i].name)
         => heap[Appended[2 + i]] =
               ToolMessage(<<Atom("error", Requested[i].name, Requested[i].id)>>,
                           Requested[i].id)
    /\ phase = "done" => Len(creates) = before.creates + 2
    /\ (phase = "done" /\ error = "None")
         => /\ result = Returned("response", <<content[Subject]>>)
            /\ content[Subject] # before.content

\* (C17) When the reply to a send_message asks for a tool the session has
\* no callable for, whatever the registry (None included), the call raises
\* nothing of its own: it adds a tool message with an error payload that
\* names the tool, makes the follow-up completion call, and returns the
\* ResponseObject of its reply.
C17_UnknownToolIsRecorded ==
    (entry = "send_message" /\ ToolTurn
       /\ \E i \in 1..Len(Requested) : Unregistered(Requested[i].name))
    => C17_Recorded

\* C17 for the sessions constructed with a registry, which the code keeps.
C17_UnknownToolWithRegistry ==
    (entry = "send_message" /\ ToolTurn
       /\ functions[Subject] # NoFunctions
       /\ \E i \in 1..Len(Requested) : Unregistered(Requested[i].name))
    => C17_Recorded

\* The last completion call of the send_message just ended came back with
\* text that is not JSON.
UnparseableReply ==
    /\ entry = "send_message" /\ phase = "done"
    /\ json_mode[Subject]
    /\ Len(creates) > before.creates
    /\ creates[Len(creates)].reply = "unparseable"

\* The errors of a failed parse: the handler's own ValueError, or the
\* json.JSONDecodeError (a ValueError too) let through.
MalformedResponse == {"MalformedResponse", "JSONDecodeError"}

\* The transcript ends with the assistant's reply as it came, unparsed.
RawReplyRecorded ==
    /\ Len(Appended) = 2
    /\ heap[Appended[2]].role = "assistant"
    /\ heap[Appended[2]].content[1].k = "unparseable_reply"

\* (C18) On a json_mode session of any provider, a send_message whose reply
\* does not parse raises the malformed-response error, and the transcript
\* then ends with the raw assistant message.
C18_MalformedRaisesAfterRawAppend ==
    UnparseableReply => (error \in MalformedResponse /\ RawReplyRecorded)

\* C18 on a Groq client, where the code keeps it.
C18_GroqAppendsRawThenRaises ==
    (UnparseableReply /\ client[Subject] = "groq")
    => (error \in MalformedResponse /\ RawReplyRecorded)

\* This step is a step of send_message on the session, the call included.
SendStep ==
    \/ nops' = nops + 1 /\ entry' = "send_message"
    \/ entry = "send_message" /\ turn # <<>>

\* The step leaves the content of every entry of the transcript as it was.
EntriesKept ==
    \A k \in 1..Len(Transcript) :
       heap'[Transcript[k]].content = heap[Transcript[k]].content

\* (C19) On a json_mode session, no step of a send_message changes the
\* content of an entry that was in the transcript before it, whether the
\* caller passes a new dict or the dict of an earlier call again.
C19_InjectionLeavesTranscriptAlone ==
    [][ (json_mode[Subject] /\ SendStep) => EntriesKept ]_vars

\* C19 for the calls that pass a dict the transcript does not hold yet,
\* which the code keeps.
C19_FreshMessageLeavesTranscriptAlone ==
    [][ (json_mode[Subject] /\ SendStep
           /\ \A k \in 1..Len(Transcript) :
                 messages'[Subject][Len(messages'[Subject])] # Transcript[k])
        => EntriesKept ]_vars

\* The index in events of the end of root participant k's task: its
\* "Responded" line or the raise that ended it; 0 if it has not ended.
RootEnd(k) ==
    LET at == {i \in 1..Len(events) :
                 /\ events[i].path # <<>>
                 /\ events[i].path[1] = k
                 /\ \/ events[i].action = "Raised"
                    \/ events[i].action = "Responded" /\ Len(events[i].path) = 1}
    IN  IF at = {} THEN 0 ELSE CHOOSE i \in at : \A j \in at : i <= j

\* A leaf declared after the participant whose task is running.
LaterLeaves ==
    {j \in (taskIdx + 1)..N : agents_or_composers[j].tag = "Agent"}

\* The step starts the task of a participant declared after the running one.
LaterStarts ==
    \E j \in LaterLeaves :
       \E i \in 1..Len(events') :
          events'[i].action = "Processing" /\ events'[i].path = <<j>>

\* (C20) In compose_asynchronously the provider call is a point where the
\* tasks interleave: while the turn of a participant is waiting on its
\* provider call and a leaf declared after it has not been started, a step
\* that starts that leaf's turn is possible (so there is an execution in
\* which a later participant's provider call starts before an earlier
\* participant's turn has completed).
C20_InterleavesAtProviderCall ==
    (entry = "compose" /\ phase = "async" /\ turn # <<>> /\ LaterLeaves # {})
    => ENABLED (Next /\ LaterStarts)

\* What the code does instead: a task is started only after every task
\* declared before it has ended.
C20_TasksRunOneAtATime ==
    (entry = "compose" /\ mode = "asynchronously")
    => \A j \in 1..N : \A i \in 1..(j - 1) :
         RootIndex("Processing", j) # 0
         => /\ RootEnd(i) # 0
            /\ RootEnd(i) < RootIndex("Processing", j)

\* The errors of model validation: _validate_model's and the handlers'.
ValidationErrors == {InvalidRequest, "UnavailableModel"}

\* The caller's previous call was a send_message that failed validation.
AfterFailedValidation ==
    before.entry = "send_message" /\ before.error \in ValidationErrors

\* The transcript the first completion call of this send_message was handed.
Sent == creates[before.creates + 1].messages

\* (C21) A send_message that fails model validation has appended the user
\* message and nothing else, made no completion call and left the session's
\* content as it was: the transcript is one entry longer.  The send_message
\* called next hands the provider a transcript in which that user message
\* is followed at once by its own, and when it returns the transcript ends
\* user, user, assistant.
C21_FailedValidationLeavesUserMessage ==
    /\ (entry = "send_message" /\ phase = "done" /\ error \in ValidationErrors)
       => /\ IsPrefix(before.messages, Transcript)
          /\ Len(Transcript) = Len(before.messages) + 1
          /\ heap[Transcript[Len(Transcript)]].role = "user"
          /\ content[Subject] = before.content
          /\ Len(creates) = before.creates
          /\ result = NothingReturned
    /\ (entry = "send_message" /\ AfterFailedValidation)
       => LET n == Len(before.messages) IN
          /\ n >= 1
          /\ heap[before.messages[n]].role = "user"
          /\ Len(creates) > before.creates
               => /\ Len(Sent) = n + 1
                  /\ SubSeq(Sent, 1, n) = before.messages
                  /\ heap[Sent[n]].role = "user"
                  /\ heap[Sent[n + 1]].role = "user"
          /\ (Returns /\ ~ToolTurn)
               => /\ Len(Transcript) = n + 2
                  /\ heap[Transcript[n]].role = "user"
                  /\ heap[Transcript[n + 1]].role = "user"
                  /\ heap[Transcript[n + 2]].role = "assistant"

C21_Witness ==
    /\ Returns /\ AfterFailedValidation
    /\ before.error = "UnavailableModel"
    /\ nops = 2
    /\ Len(creates) = 1
    /\ Len(Transcript) = 4
    /\ heap[Transcript[2]].role = "user"
    /\ heap[Transcript[3]].role = "user"
    /\ content[Subject] # NoResponse
====
